---------------------------- MODULE Spec2Model ----------------------------
(***************************************************************************)
(* A model of python-markov (src/markov/markov.py): an n-gram index kept   *)
(* in Redis sorted sets, the scoring of lines against it and the random    *)
(* walk that generates text from it.                                       *)
(*                                                                         *)
(* Representation.  A Python str is a sequence of one-character strings,   *)
(* so that joining with the separator, splitting on it and glob matching   *)
(* are computed as the code computes them.  A list of words is a sequence  *)
(* of such strs.  A value that may be None (or False) is a sequence of     *)
(* length at most one: <<>> is None, <<v>> is the value v.  A score is the *)
(* exact rational <<numerator, denominator>> of the float the code holds.  *)
(* The Redis database is a function from the existing keys to sorted sets, *)
(* each sorted set a function from its members to their scores.            *)
(***************************************************************************)
EXTENDS Integers, Sequences, FiniteSets, TLC

\* ----------------------------------------------------------------- bounds
\* The longest line handed to add_line_to_index and score_for_line.
MaxLen == 3
\* The number of add_line_to_index calls in one behaviour.
MaxAdds == 1
\* The largest max_words handed to generate.
MaxWords == 3
\* The longest sequence a walk may reach before the model stops following it.
MaxSeed == 5
\* The draws of one quality filtering the model follows.
MaxDraws == 1
\* The add_line_to_index calls that run concurrently.
MaxCalls == 2
\* The add_line_to_index calls of a behaviour that indexes lines again.
MaxRepeats == 3

\* -------------------------------------------------------------- constants
SEPARATOR == <<":">>
STOP == <<"STX">>
PREFIX == <<"m", "a", "r", "k", "o", "v">>
PUNCTUATION ==
    { <<",">>, <<".">>, <<";">>, <<"!">>, <<"?">>, <<"(">>, <<")">>,
      <<".", ".", ".">>, <<".", ".", ".", ".">>, <<".", ".", ".", ".", ".">> }

\* None, and the value v that is not None.
None == <<>>
Some(v) == <<v>>
\* Python's truth value of None, False, '' (all false) and a non-empty str.
Truthy(o) == o # <<>> /\ o[1] # <<>>

\* ------------------------------------------------------------ str and list
RECURSIVE Join(_, _)
\* sep.join(parts)
Join(sep, parts) ==
    IF parts = <<>> THEN <<>>
    ELSE IF Len(parts) = 1 THEN parts[1]
    ELSE parts[1] \o sep \o Join(sep, Tail(parts))

RECURSIVE SplitFrom(_, _, _)
\* s.split(sep) for a one-character sep, with cur the piece being read.
SplitFrom(s, sep, cur) ==
    IF s = <<>> THEN <<cur>>
    ELSE IF <<Head(s)>> = sep THEN <<cur>> \o SplitFrom(Tail(s), sep, <<>>)
    ELSE SplitFrom(Tail(s), sep, Append(cur, Head(s)))

Split(s, sep) == SplitFrom(s, sep, <<>>)

\* x in lst
InList(x, lst) == \E i \in 1..Len(lst) : lst[i] = x

\* lst.remove(x): the list without the first occurrence of x (x is in lst).
Remove(lst, x) ==
    LET i == CHOOSE j \in 1..Len(lst) :
                 lst[j] = x /\ \A h \in 1..(j - 1) : lst[h] # x
    IN  SubSeq(lst, 1, i - 1) \o SubSeq(lst, i + 1, Len(lst))

\* lst[lo:hi] with 0 <= lo, Python's slice (clipped to the list).
Slice(lst, lo, hi) ==
    SubSeq(lst, lo + 1, IF hi > Len(lst) THEN Len(lst) ELSE hi)

\* lst[:n]: the leading n items, where LastN takes the trailing ones.
FirstN(lst, n) == IF n >= Len(lst) THEN lst ELSE SubSeq(lst, 1, n)
\* lst[-n:] for n >= 1.
LastN(lst, n) == IF n >= Len(lst) THEN lst ELSE SubSeq(lst, Len(lst) - n + 1, Len(lst))

\* sub occurs in s as a contiguous substring.
Contains(s, sub) ==
    \E i \in 0..(Len(s) - Len(sub)) : SubSeq(s, i + 1, i + Len(sub)) = sub

StartsWith(s, pre) == Len(s) >= Len(pre) /\ SubSeq(s, 1, Len(pre)) = pre

\* ---------------------------------------------------------------- rationals
RECURSIVE Gcd(_, _)
Gcd(a, b) == IF b = 0 THEN a ELSE Gcd(b, a % b)

\* n/d in lowest terms, d > 0.
Frac(n, d) == LET g == Gcd(n, d) IN IF n = 0 THEN <<0, 1>> ELSE <<n \div g, d \div g>>
FAdd(x, y) == Frac(x[1] * y[2] + y[1] * x[2], x[2] * y[2])
FLess(x, y) == x[1] * y[2] < y[1] * x[2]
FLeq(x, y) == x[1] * y[2] <= y[1] * x[2]

\* -------------------------------------------------------------------- Redis
\* ZADD in the place of ZINCRBY: the member's score is set to 1.
zincrby_sets(db, key, member) ==
    LET zset == IF key \in DOMAIN db THEN db[key] ELSE <<>>
        new == [m \in DOMAIN zset \cup {member} |->
                    IF m = member THEN 1 ELSE zset[m]]
    IN  [k \in DOMAIN db \cup {key} |-> IF k = key THEN new ELSE db[k]]

\* ZINCRBY key member 1: creates the key and the member when absent.
zincrby(db, key, member) ==
    LET zset == IF key \in DOMAIN db THEN db[key] ELSE <<>>
        old == IF member \in DOMAIN zset THEN zset[member] ELSE 0
        new == [m \in DOMAIN zset \cup {member} |->
                    IF m = member THEN old + 1 ELSE zset[m]]
    IN  [k \in DOMAIN db \cup {key} |-> IF k = key THEN new ELSE db[k]]

\* ZSCORE key member: None when the key or the member is absent.
zscore(db, key, member) ==
    IF key \in DOMAIN db /\ member \in DOMAIN db[key]
    THEN Some(db[key][member]) ELSE None

\* The members of the sorted set at key (ZREVRANGE key 0 -1), as a set.
zmembers(db, key) ==
    IF key # None /\ key[1] \in DOMAIN db THEN DOMAIN db[key[1]] ELSE {}

\* KEYS prefix:*
keys_of_prefix(db, prefix) ==
    { k \in DOMAIN db : StartsWith(k, prefix \o SEPARATOR) }

\* KEYS prefix:*term*
keys_matching(db, prefix, term) ==
    { k \in keys_of_prefix(db, prefix) :
        Contains(SubSeq(k, Len(prefix) + 2, Len(k)), term) }


\* ------------------------------------------------------------------ indexing
\* make_key for a list or tuple of words; prefix is None or a str.
make_key(key, prefix) ==
    LET joined == Join(SEPARATOR, key)
    IN  IF Truthy(prefix) THEN Join(SEPARATOR, <<prefix[1], joined>>) ELSE joined

\* make_key for a value that already is a str: returned as it is.
make_key_str(key) == key

\* get_key_and_completion with no test for STOP in the key window.
get_key_and_completion_any(line, key_length, completion_length, prefix) ==
    IF Len(line) >= key_length
    THEN LET key == make_key(Slice(line, 0, key_length), prefix)
             completion ==
                 IF completion_length > 1
                 THEN make_key(Slice(line, key_length,
                                     key_length + completion_length), None)
                 ELSE IF key_length < Len(line)
                      THEN make_key_str(line[key_length + 1])
                      ELSE make_key_str(STOP)
         IN  [key |-> Some(key), completion |-> Some(completion)]
    ELSE [key |-> None, completion |-> None]

\* get_key_and_completion with no pair for the key at the end of the line: no
\* STOP is put in the place of the missing word.
get_key_and_completion_no_stop(line, key_length, completion_length, prefix) ==
    IF /\ Len(line) >= key_length
       /\ ~InList(STOP, Slice(line, 0, key_length))
       /\ (completion_length > 1 \/ key_length < Len(line))
    THEN LET key == make_key(Slice(line, 0, key_length), prefix)
             completion ==
                 IF completion_length > 1
                 THEN make_key(Slice(line, key_length,
                                     key_length + completion_length), None)
                 ELSE make_key_str(line[key_length + 1])
         IN  [key |-> Some(key), completion |-> Some(completion)]
    ELSE [key |-> None, completion |-> None]

\* get_key_and_completion with the slice line[key_length:completion_length].
get_key_and_completion_slice(line, key_length, completion_length, prefix) ==
    IF Len(line) >= key_length /\ ~InList(STOP, Slice(line, 0, key_length))
    THEN LET key == make_key(Slice(line, 0, key_length), prefix)
             completion ==
                 IF completion_length > 1
                 THEN make_key(Slice(line, key_length, completion_length), None)
                 ELSE IF key_length < Len(line)
                      THEN make_key_str(line[key_length + 1])
                      ELSE make_key_str(STOP)
         IN  [key |-> Some(key), completion |-> Some(completion)]
    ELSE [key |-> None, completion |-> None]

\* The (key, completion) pair at the head of line, or (False, False).
get_key_and_completion(line, key_length, completion_length, prefix) ==
    IF Len(line) >= key_length /\ ~InList(STOP, Slice(line, 0, key_length))
    THEN LET key == make_key(Slice(line, 0, key_length), prefix)
             completion ==
                 IF completion_length > 1
                 THEN make_key(Slice(line, key_length,
                                     key_length + completion_length), None)
                 ELSE IF key_length < Len(line)
                      THEN make_key_str(line[key_length + 1])
                      ELSE make_key_str(STOP)
         IN  [key |-> Some(key), completion |-> Some(completion)]
    ELSE [key |-> None, completion |-> None]

RECURSIVE add_line_to_index_no_stop(_, _, _, _, _)
\* add_line_to_index that ends at the last word: the window with completion
\* STOP is not counted.
add_line_to_index_no_stop(line, db, key_length, completion_length, prefix) ==
    LET kc == get_key_and_completion(line, key_length, completion_length, prefix)
    IN  IF Truthy(kc.key) /\ Truthy(kc.completion) /\ kc.completion[1] # STOP
        THEN add_line_to_index_no_stop(
                 Tail(line),
                 zincrby(db, kc.key[1], make_key_str(kc.completion[1])),
                 key_length, completion_length, prefix)
        ELSE db

RECURSIVE add_line_to_index_step_two(_, _, _, _, _)
\* add_line_to_index that goes on with line[2:]: every other window is counted.
add_line_to_index_step_two(line, db, key_length, completion_length, prefix) ==
    LET kc == get_key_and_completion(line, key_length, completion_length, prefix)
    IN  IF Truthy(kc.key) /\ Truthy(kc.completion)
        THEN add_line_to_index_step_two(
                 IF Len(line) >= 2 THEN Tail(Tail(line)) ELSE << >>,
                 zincrby(db, kc.key[1], make_key_str(kc.completion[1])),
                 key_length, completion_length, prefix)
        ELSE db

RECURSIVE add_line_to_index(_, _, _, _, _)
\* The database after add_line_to_index(line, client, ...) on database db.
add_line_to_index(line, db, key_length, completion_length, prefix) ==
    LET kc == get_key_and_completion(line, key_length, completion_length, prefix)
    IN  IF Truthy(kc.key) /\ Truthy(kc.completion)
        THEN add_line_to_index(
                 Tail(line),
                 zincrby(db, kc.key[1], make_key_str(kc.completion[1])),
                 key_length, completion_length, prefix)
        ELSE db

\* ------------------------------------------------------------------- scoring
\* ZRANGE in the place of ZREVRANGE: the lowest score.
max_for_key_lowest(db, key) ==
    IF key \in DOMAIN db /\ DOMAIN db[key] # {}
    THEN LET m == CHOOSE x \in DOMAIN db[key] :
                      \A y \in DOMAIN db[key] : db[key][x] <= db[key][y]
         IN  db[key][m]
    ELSE 0

\* The highest score of a member of the sorted set at key, 0 without one.
max_for_key(db, key) ==
    IF key \in DOMAIN db /\ DOMAIN db[key] # {}
    THEN LET m == CHOOSE x \in DOMAIN db[key] :
                      \A y \in DOMAIN db[key] : db[key][y] <= db[key][x]
         IN  db[key][m]
    ELSE 0

\* The lowest score of a member of the sorted set at key, 0 without one.
min_for_key(db, key) ==
    IF key \in DOMAIN db /\ DOMAIN db[key] # {}
    THEN LET m == CHOOSE x \in DOMAIN db[key] :
                      \A y \in DOMAIN db[key] : db[key][x] <= db[key][y]
         IN  db[key][m]
    ELSE 0

\* (raw_score / maximum) * 100, as an exact rational.
score_for_completion(db, key, completion) ==
    LET z == zscore(db, key, make_key_str(completion))
        raw_score == IF z # None /\ z[1] # 0 THEN z[1] ELSE 0
        m == max_for_key(db, key)
        maximum == IF m # 0 THEN m ELSE 1
    IN  Frac(raw_score * 100, maximum)

RECURSIVE score_for_line_rec(_, _, _, _, _, _)
\* _score_for_line: the summed score of the windows of line and their count.
score_for_line_rec(line, db, key_length, completion_length, prefix, count) ==
    LET kc == get_key_and_completion(line, key_length, completion_length, prefix)
    IN  IF Truthy(kc.key) /\ Truthy(kc.completion)
        THEN LET score == score_for_completion(db, kc.key[1], kc.completion[1])
                 rest == score_for_line_rec(Tail(line), db, key_length,
                                            completion_length, prefix, count + 1)
             IN  [score |-> FAdd(score, rest.score), count |-> rest.count]
        ELSE [score |-> <<0, 1>>, count |-> count]

\* The summed score returned, with no division by count.
score_for_line_sum(line, db, key_length, completion_length, prefix) ==
    LET r == score_for_line_rec(line, db, key_length, completion_length, prefix, 0)
    IN  IF r.count > 0 THEN r.score ELSE <<0, 1>>

\* score / count, or 0 when the line has no window.
score_for_line(line, db, key_length, completion_length, prefix) ==
    LET r == score_for_line_rec(line, db, key_length, completion_length, prefix, 0)
    IN  IF r.count > 0 THEN Frac(r.score[1], r.score[2] * r.count) ELSE <<0, 1>>


\* ---------------------------------------------------------------- generation
\* count_tokens(seed, count_punctuation)
count_tokens(seed, count_punctuation) ==
    IF count_punctuation THEN Len(seed)
    ELSE Cardinality({ i \in 1..Len(seed) : seed[i] \notin PUNCTUATION })

\* Some item of seed is in PUNCTUATION.
has_punctuation(seed) == \E i \in 1..Len(seed) : seed[i] \in PUNCTUATION

\* get_completion that leaves the excluded completions in.
get_completion_all(db, key, exclude, relevant_terms) ==
    LET completions == zmembers(db, key)
        relevant == IF relevant_terms # None /\ relevant_terms[1] # <<>>
                    THEN { m \in completions : InList(m, relevant_terms[1]) }
                    ELSE {}
    IN  IF completions = {} THEN {None}
        ELSE IF relevant # {} THEN { Some(m) : m \in relevant }
        ELSE { Some(m) : m \in completions }

\* The values get_completion may return: its random.choice is any element.
get_completion(db, key, exclude, relevant_terms) ==
    LET completions == { m \in zmembers(db, key) : ~InList(m, exclude) }
        relevant == IF relevant_terms # None /\ relevant_terms[1] # <<>>
                    THEN { m \in completions : InList(m, relevant_terms[1]) }
                    ELSE {}
    IN  IF completions = {} THEN {None}
        ELSE IF relevant # {} THEN { Some(m) : m \in relevant }
        ELSE { Some(m) : m \in completions }

\* The keys one iteration of get_relevant_key_and_seed draws from.
relevant_keys(db, relevant_terms, prefix) ==
    UNION { keys_matching(db, prefix, relevant_terms[i]) :
              i \in 1..Len(relevant_terms) }

\* seed with prefix taken out, when it is in it (the end of both selectors).
strip_prefix(seed, prefix) ==
    IF InList(prefix, seed) THEN Remove(seed, prefix) ELSE seed

\* STOP left in.
strip_stop_keeps(lst) == lst

\* lst with STOP taken out, when it is in it.
strip_stop(lst) == IF InList(STOP, lst) THEN Remove(lst, STOP) ELSE lst


\* tries, the default of get_relevant_key_and_seed.
Tries == 10

RECURSIVE relevant_draws(_, _)
\* The keys get_relevant_key_and_seed may hold when its loop ends, keys being
\* the non-empty set each iteration draws from and tried the draws made so far:
\* a drawn key ends the loop unless it has punctuation and tries remain.
relevant_draws(keys, tried) ==
    LET again(k) == has_punctuation(Split(k, SEPARATOR)) /\ tried + 1 < Tries
    IN  { k \in keys : ~again(k) }
        \cup (IF \E k \in keys : again(k)
              THEN relevant_draws(keys, tried + 1) ELSE {})

\* The (key, seed) pairs get_relevant_key_and_seed may return.
get_relevant_key_and_seed(db, relevant_terms, prefix) ==
    LET keys == relevant_keys(db, relevant_terms, prefix)
    IN  IF keys = {} THEN { [key |-> None, seed |-> <<>>] }
        ELSE { [key |-> Some(k),
                seed |-> strip_prefix(Split(k, SEPARATOR), prefix)] :
                 k \in relevant_draws(keys, 0) }

\* ------------------------------------------------------------ the workloads
\* The words of the lines: a word, a punctuation mark, and a word that has
\* another word as a substring.
tA == <<"a">>
tComma == <<",">>
tAB == <<"a", "b">>
\* A word that holds the separator.
tBC == <<"b", ":", "c">>
Words == {tA, tComma}

\* The lists over S of length n, and of length lo..hi.
ListsOfLen(S, n) == [1..n -> S]
Lists(S, lo, hi) == UNION { ListsOfLen(S, n) : n \in lo..hi }

\* The lines, words and prefix of src/markov/tests.py.
wI == <<"i">>
wAte == <<"a", "t", "e">>
wPeach == <<"p", "e", "a", "c", "h">>
wOne == <<"o", "n", "e">>
wSandwich == <<"s", "a", "n", "d", "w", "i", "c", "h">>
wPizza == <<"p", "i", "z", "z", "a">>
TestPrefix == <<"t", "e", "s", "t">>
TestLine == <<wI, wAte, tA, wPeach>>
TestLine1 == <<wI, wAte, wOne, wPeach>>
TestLine2 == <<wI, wAte, tA, wSandwich>>
TestLinePizza == <<wI, wAte, tA, wPizza>>
TestLine3 == <<wI, wAte, wOne, wSandwich>>
TestLines == {TestLine, TestLine1, TestLine2}

\* Lines with a word of which another word is a substring, a line that
\* holds STOP and a line with a word that holds the separator.
ExtraLines == { <<tAB>>, <<tA, tAB>>, <<tA, STOP>>, <<tA, tBC>> }

\* A workload bounds what one behaviour is driven with.
\*   lines: up to MaxAdds lines over Words are indexed, lines are scored and
\*          text is generated, with any key and completion length;
\*   tests: the lines of tests.py are indexed, scored and generated from.
Workloads == {"lines", "tests"}
KeyLengths == {1, 2}
CompletionLengths == {1, 2}

\* The lines add_line_to_index is called with.
AddArgs(w) ==
    IF w = "tests" THEN TestLines ELSE Lists(Words, 1, MaxLen) \cup ExtraLines
\* The lines score_for_line is called with.
ScoreArgs(w) ==
    IF w = "tests" THEN TestLines \cup {TestLinePizza, TestLine3} ELSE AddArgs(w)
\* The number of add_line_to_index calls.
AddBudget(w) ==
    IF w = "tests" THEN Cardinality(TestLines) ELSE MaxAdds
\* The arguments of generate.
SeedArgs(w, n) ==
    IF w = "tests" THEN {None, Some(<<wAte, wOne>>)}
    ELSE {None} \cup { Some(l) : l \in ListsOfLen(Words, n) }
MaxWordsArgs(w) == IF w = "tests" THEN {3, 1000} ELSE {MaxWords - 1, MaxWords}
QualityFloorArgs(w) == IF w = "tests" THEN {0} ELSE {0, 75}
CountPunctuationArgs(w) == IF w = "tests" THEN {TRUE} ELSE BOOLEAN
RelevantTermsArgs(w) ==
    IF w = "tests" THEN {None, Some(<<wPeach>>), Some(<<wSandwich>>), Some(<<wPizza>>)}
    ELSE {None, Some(<<tA>>)}

\* ------------------------------------------------------------------- state
VARIABLES
    client,             \* the Redis database: key -> (member -> score)
    prefix,             \* Markov.prefix
    key_length,         \* Markov.key_length
    completion_length,  \* Markov.completion_length
    gen,                \* the generate call in progress, or idle
    ret,                \* the last call that returned, with its result
    indexed,            \* history: how often each line was indexed
    workload,           \* what this behaviour is driven with
    adding,             \* the add_line_to_index calls that run concurrently
    others              \* history: the lines indexed under other prefixes

vars == <<client, prefix, key_length, completion_length, gen, ret, indexed, workload,
          adding, others>>
config == <<prefix, key_length, completion_length, workload>>

Idle == [pc |-> "idle"]
NoCall == [op |-> "none"]

\* Markov.__init__, on an empty database.
Init ==
    /\ client = <<>>
    /\ indexed = <<>>
    /\ gen = Idle
    /\ ret = NoCall
    /\ adding = <<>>
    /\ others = <<>>
    /\ workload \in Workloads
    /\ IF workload = "tests"
       THEN prefix = TestPrefix /\ key_length = 2 /\ completion_length = 1
       ELSE /\ prefix = PREFIX
            /\ key_length \in KeyLengths
            /\ completion_length \in CompletionLengths

\* How many lines were indexed.
RECURSIVE BagSize(_)
BagSize(b) ==
    IF DOMAIN b = {} THEN 0
    ELSE LET x == CHOOSE y \in DOMAIN b : TRUE
         IN  b[x] + BagSize([z \in DOMAIN b \ {x} |-> b[z]])

BagAdd(b, x) ==
    [y \in DOMAIN b \cup {x} |-> IF y = x THEN (IF x \in DOMAIN b THEN b[x] ELSE 0) + 1
                                 ELSE b[y]]

\* The caller makes its next call once it has let go of the value the last
\* one returned; what add_line_to_index returns (None) needs no letting go.
CanCall == gen.pc = "idle" /\ ret.op \in {"none", "add_line_to_index"}

\* The caller lets go of the value returned to it.
Discard ==
    /\ gen.pc = "idle"
    /\ ret.op \notin {"none", "add_line_to_index"}
    /\ ret' = NoCall
    /\ UNCHANGED <<config, adding, others, client, indexed, gen>>

\* Markov.add_line_to_index(line)
AddLine ==
    /\ CanCall
    /\ BagSize(indexed) < AddBudget(workload)
    /\ \E line \in AddArgs(workload) :
         /\ client' = add_line_to_index(line, client, key_length,
                                        completion_length, Some(prefix))
         /\ indexed' = BagAdd(indexed, line)
         /\ ret' = [op |-> "add_line_to_index", line |-> line]
    /\ UNCHANGED <<config, adding, others, gen>>

\* score_for_line that indexes the line it scores.
ScoreLine_Indexing ==
    /\ CanCall
    /\ \E line \in ScoreArgs(workload) :
         /\ ret' = [op |-> "score_for_line", line |-> line,
                    score |-> score_for_line(line, client, key_length,
                                             completion_length, Some(prefix)),
                    fresh |-> (ret.op = "add_line_to_index" /\ ret.line = line)]
         /\ client' = add_line_to_index(line, client, key_length,
                                        completion_length, Some(prefix))
    /\ UNCHANGED <<config, adding, others, indexed, gen>>

\* Markov.score_for_line(line); fresh says that the call before it indexed line.
ScoreLine ==
    /\ CanCall
    /\ \E line \in ScoreArgs(workload) :
         ret' = [op |-> "score_for_line", line |-> line,
                 score |-> score_for_line(line, client, key_length,
                                          completion_length, Some(prefix)),
                 fresh |-> (ret.op = "add_line_to_index" /\ ret.line = line)]
    /\ UNCHANGED <<config, adding, others, client, indexed, gen>>


\* The return of a generate call: value is the list returned, kind tells a
\* list ("list") from None ("none") and from an exception ("raise"), and last
\* is the list the last step of the walk worked on, before any STOP is removed.
Return(g, kind, value, last) ==
    /\ gen' = Idle
    /\ ret' = [op |-> "generate", kind |-> kind, value |-> value, last |-> last,
               given |-> g.given, first |-> g.first,
               max_words |-> g.max_words, relevant_terms |-> g.relevant_terms]

\* generate with its seed in hand: the key of the trailing key_length words,
\* then the lookup of a completion.
Recurse(g, seed) ==
    /\ Len(seed) <= MaxSeed
    /\ gen' = [g EXCEPT !.pc = "completion", !.seed = seed,
                        !.key = Some(make_key(LastN(seed, key_length), Some(prefix))),
                        !.completion = None, !.exclude = <<>>]
    /\ ret' = NoCall

\* generate from "if completion:" on, the completion chosen.
Continue(g, completion) ==
    IF Truthy(completion)
    THEN LET words == Split(completion[1], SEPARATOR)
             total == count_tokens(g.seed, g.count_punctuation)
                      + count_tokens(words, g.count_punctuation)
         IN  IF total < g.max_words THEN Recurse(g, g.seed \o words)
             ELSE IF total = g.max_words
                  THEN Return(g, "list", g.seed \o strip_stop(words), g.seed \o words)
                  ELSE Return(g, "none", <<>>, g.seed \o words)
    ELSE Return(g, "list", strip_stop(g.seed), g.seed)

\* A key no line of the workloads gives rise to (tests.py, line 45).
StupidKey(p) == make_key(<<<<"s", "t", "u", "p", "i", "d", "k", "e", "y">>>>, Some(p))

\* The keys and completions score_for_completion is called with: those of the
\* database, a key that is not in it and completions that may not be.
KeyArgs == DOMAIN client \cup {StupidKey(prefix)}
CompletionArgs ==
    UNION { DOMAIN client[k] : k \in DOMAIN client } \cup {tA, wOne, STOP}

\* score_for_completion(key, completion, client)
ScoreCompletion ==
    /\ CanCall
    /\ \E key \in KeyArgs, completion \in CompletionArgs :
         ret' = [op |-> "score_for_completion", key |-> key,
                 completion |-> completion,
                 score |-> score_for_completion(client, key, completion)]
    /\ UNCHANGED <<config, adding, others, client, indexed, gen>>

\* Markov.generate(seed, max_words, quality_floor, count_punctuation,
\* relevant_terms) is called: with no seed, get_key_and_seed picks the selector.
GenerateCall ==
    /\ CanCall
    /\ \E seed \in SeedArgs(workload, key_length),
          max_words \in MaxWordsArgs(workload),
          quality_floor \in QualityFloorArgs(workload),
          count_punctuation \in CountPunctuationArgs(workload),
          relevant_terms \in RelevantTermsArgs(workload) :
         LET g == [pc |-> "completion", seed |-> <<>>, key |-> None,
                   completion |-> None, exclude |-> <<>>,
                   given |-> seed # None, first |-> <<>>,
                   max_words |-> max_words, quality_floor |-> quality_floor,
                   count_punctuation |-> count_punctuation,
                   relevant_terms |-> relevant_terms]
         IN  IF seed # None
             THEN gen' = [g EXCEPT !.seed = seed[1], !.first = seed[1],
                            !.key = Some(make_key(LastN(seed[1], key_length),
                                                  Some(prefix)))]
             ELSE IF relevant_terms # None /\ Len(relevant_terms[1]) > 0
             THEN \E ks \in get_relevant_key_and_seed(client, relevant_terms[1],
                                                      prefix) :
                    gen' = [g EXCEPT !.seed = ks.seed, !.first = ks.seed,
                                     !.key = ks.key]
             ELSE gen' = [g EXCEPT !.pc = "random_key"]
    /\ ret' = NoCall
    /\ UNCHANGED <<config, adding, others, client, indexed>>

\* One iteration of the loop of get_random_key_and_seed: random.choice raises
\* IndexError on no key; a key with punctuation is drawn again.
RandomKey ==
    /\ gen.pc = "random_key"
    /\ LET keys == keys_of_prefix(client, prefix)
       IN  IF keys = {} THEN Return(gen, "raise", <<>>, <<>>)
           ELSE \E key \in keys :
                  LET seed == Split(key, SEPARATOR)
                  IN  IF has_punctuation(seed) THEN UNCHANGED <<gen, ret>>
                      ELSE /\ gen' = [gen EXCEPT !.pc = "completion",
                                        !.key = Some(key),
                                        !.seed = strip_prefix(seed, prefix),
                                        !.first = strip_prefix(seed, prefix)]
                           /\ ret' = NoCall
    /\ UNCHANGED <<config, adding, others, client, indexed>>

\* completion = get_completion(client, key, relevant_terms=relevant_terms); with
\* a quality floor and a completion the filtering loop is entered.
Completion ==
    /\ gen.pc = "completion"
    /\ \E completion \in get_completion(client, gen.key, <<>>, gen.relevant_terms) :
         IF Truthy(completion) /\ gen.quality_floor > 0
         THEN /\ gen' = [gen EXCEPT !.pc = "filter", !.completion = completion,
                                    !.exclude = <<>>]
              /\ ret' = NoCall
         ELSE Continue(gen, completion)
    /\ UNCHANGED <<config, adding, others, client, indexed>>

\* One test of "while score < quality_floor and completion is not None": the
\* body draws again, with no exclude argument; otherwise generate goes on.
Filter ==
    /\ gen.pc = "filter"
    /\ LET score == score_for_completion(client, gen.key[1], gen.completion[1])
       IN  IF FLess(score, <<gen.quality_floor, 1>>) /\ gen.completion # None
           THEN /\ Len(gen.exclude) < MaxDraws
                /\ \E completion \in get_completion(client, gen.key, <<>>,
                                                    gen.relevant_terms) :
                     gen' = [gen EXCEPT !.completion = completion,
                                        !.exclude = Append(@, gen.completion[1])]
                /\ ret' = NoCall
           ELSE Continue(gen, gen.completion)
    /\ UNCHANGED <<config, adding, others, client, indexed>>

Next == AddLine \/ ScoreLine \/ ScoreCompletion \/ Discard \/ GenerateCall \/ RandomKey \/ Completion \/ Filter

Spec == Init /\ [][Next]_vars

\* ------------------------------------------------- concurrent indexing
\* Several add_line_to_index calls on one database, each of its recursion
\* levels a step of its own: what is atomic is the ZINCRBY of Redis.

\* The lines the concurrent calls are given: the lines of tests.py, or lines
\* of one word repeated, so that the calls meet on their (key, completion)
\* pairs.
ConcurrentArgs(w) ==
    IF w = "tests" THEN TestLines ELSE Lists({tA}, 1, MaxLen)

\* add_line_to_index(line) is called while other calls may be running.
BeginAdd ==
    /\ Len(adding) < MaxCalls
    /\ \E line \in ConcurrentArgs(workload) :
         /\ adding' = Append(adding, [line |-> line, rest |-> line, pc |-> "running"])
         /\ indexed' = BagAdd(indexed, line)
    /\ UNCHANGED <<config, others, client, gen, ret>>

\* One level of the recursion of call p: the ZINCRBY of the pair at the head of
\* what is left of its line and the call on line[1:], or the return.
AddStep(p) ==
    /\ adding[p].pc = "running"
    /\ LET kc == get_key_and_completion(adding[p].rest, key_length,
                                        completion_length, Some(prefix))
       IN  IF Truthy(kc.key) /\ Truthy(kc.completion)
           THEN /\ client' = zincrby(client, kc.key[1], make_key_str(kc.completion[1]))
                /\ adding' = [adding EXCEPT ![p].rest = Tail(@)]
           ELSE /\ adding' = [adding EXCEPT ![p].pc = "returned"]
                /\ UNCHANGED client
    /\ UNCHANGED <<config, others, indexed, gen, ret>>

\* Some call takes a step.
AddSteps == \E p \in 1..Len(adding) : AddStep(p)

NextConcurrent == BeginAdd \/ AddSteps

SpecConcurrent == Init /\ [][NextConcurrent]_vars

\* ------------------------------------------------ models sharing a database
\* Markov objects with other prefixes index into the database of this one.

\* The prefixes of the other models: "two" (tests.py, test_flush), a prefix
\* that begins with this model's (as "testclass" begins with "test") and a
\* prefix one level below this model's.
Two == <<"t", "w", "o">>
OtherPrefixes(p) ==
    { Two, p \o <<"c", "l", "a", "s", "s">>, Join(SEPARATOR, <<p, tA>>) }
\* The lines the other models index.
OtherArgs == { <<tA>>, <<tA, tA>> }

\* Markov(prefix=other).add_line_to_index(line), on the same database.
AddLineOther ==
    /\ CanCall
    /\ BagSize(others) < MaxAdds
    /\ \E other \in OtherPrefixes(prefix), line \in OtherArgs :
         /\ client' = add_line_to_index(line, client, key_length,
                                        completion_length, Some(other))
         /\ others' = BagAdd(others, <<other, line>>)
    /\ UNCHANGED <<config, adding, indexed, gen, ret>>

\* The models index the lines of tests.py and one of them scores lines and
\* generates text.
InitShared == Init /\ workload = "tests"

NextShared ==
    AddLine \/ AddLineOther \/ ScoreLine \/ Discard \/ GenerateCall \/ RandomKey
    \/ Completion

SpecShared == InitShared /\ [][NextShared]_vars

\* ------------------------------------------------- the functions, called alone
\* The functions of the module that generate calls, called by themselves on
\* the database, as tests.py calls them.

\* The arguments of get_completion: a key of the database, a key that is not in
\* it or None; as exclude, up to two of the key's completions and of a word
\* that may not be one; the relevance terms.
LookupKeyArgs == {None} \cup { Some(k) : k \in KeyArgs }
ExcludeArgs(key) == Lists(zmembers(client, key) \cup {tA}, 0, 2)
LookupTermsArgs(w) ==
    IF w = "tests" THEN {None, Some(<<wOne>>), Some(<<wPizza>>)}
    ELSE {None, Some(<<tA>>), Some(<<STOP>>)}

\* get_completion(client, key, exclude, relevant_terms)
GetCompletion ==
    /\ CanCall
    /\ \E key \in LookupKeyArgs, relevant_terms \in LookupTermsArgs(workload) :
         \E exclude \in ExcludeArgs(key) :
           \E completion \in get_completion(client, key, exclude, relevant_terms) :
             ret' = [op |-> "get_completion", key |-> key, exclude |-> exclude,
                     relevant_terms |-> relevant_terms, completion |-> completion]
    /\ UNCHANGED <<config, adding, others, client, indexed, gen>>

\* The arguments of get_key_and_completion: the key lengths up to one more
\* than the longest line has words, with and without a prefix.
KeyLengthArgs(w) == IF w = "tests" THEN 1..(Len(TestLine) + 1) ELSE 1..(MaxLen + 1)
PrefixArgs(p) == {None, Some(p)}

\* get_key_and_completion(line, key_length, completion_length, prefix), which
\* reads no database: it is called before a line is indexed.
GetKeyAndCompletion ==
    /\ CanCall
    /\ indexed = <<>>
    /\ \E line \in ScoreArgs(workload), k \in KeyLengthArgs(workload),
          c \in CompletionLengths, p \in PrefixArgs(prefix) :
         LET kc == get_key_and_completion(line, k, c, p)
         IN  ret' = [op |-> "get_key_and_completion", line |-> line,
                     key_length |-> k, completion_length |-> c, prefix |-> p,
                     key |-> kc.key, completion |-> kc.completion]
    /\ UNCHANGED <<config, adding, others, client, indexed, gen>>

\* get_random_key_and_seed(client, prefix): random.choice raises IndexError on
\* no key, and the loop draws again after a key with punctuation.
GetRandomKeyAndSeed ==
    /\ CanCall
    /\ LET keys == keys_of_prefix(client, prefix)
       IN  IF keys = {}
           THEN ret' = [op |-> "get_random_key_and_seed", kind |-> "raise",
                        key |-> None, seed |-> <<>>]
           ELSE \E key \in keys :
                  LET seed == Split(key, SEPARATOR)
                  IN  IF has_punctuation(seed) THEN UNCHANGED ret
                      ELSE ret' = [op |-> "get_random_key_and_seed",
                                   kind |-> "pair", key |-> Some(key),
                                   seed |-> strip_prefix(seed, prefix)]
    /\ UNCHANGED <<config, adding, others, client, indexed, gen>>

\* The prefix of a model of tests.py that is also a word of its lines
\* (test_flush: Markov(prefix="one")).
PrefixOne == wOne

\* A prefix that holds the separator: the namespace one level below that of
\* tests.py.
PrefixNested == Join(SEPARATOR, <<TestPrefix, tA>>)

\* Markov.__init__ on an empty database, the model of test_flush and a model
\* with a prefix that holds the separator among them.
InitFunctions ==
    \/ Init
    \/ /\ client = <<>>
       /\ indexed = <<>>
       /\ gen = Idle
       /\ ret = NoCall
       /\ adding = <<>>
       /\ others = <<>>
       /\ workload = "lines"
       /\ prefix = PrefixNested
       /\ key_length \in KeyLengths
       /\ completion_length = 1
    \/ /\ client = <<>>
       /\ indexed = <<>>
       /\ gen = Idle
       /\ ret = NoCall
       /\ adding = <<>>
       /\ others = <<>>
       /\ workload = "tests"
       /\ prefix = PrefixOne /\ key_length = 2 /\ completion_length = 1

NextFunctions ==
    AddLine \/ Discard \/ GetCompletion \/ GetKeyAndCompletion \/ GetRandomKeyAndSeed

SpecFunctions == InitFunctions /\ [][NextFunctions]_vars

\* ----------------------------------------------------- lines indexed again
\* add_line_to_index called several times, with lines that share their keys
\* and with the same line again.
IndexAgain ==
    /\ CanCall
    /\ BagSize(indexed) < MaxRepeats
    /\ \E line \in ConcurrentArgs(workload) :
         /\ client' = add_line_to_index(line, client, key_length,
                                        completion_length, Some(prefix))
         /\ indexed' = BagAdd(indexed, line)
         /\ ret' = [op |-> "add_line_to_index", line |-> line]
    /\ UNCHANGED <<config, adding, others, gen>>

NextRepeated == IndexAgain

SpecRepeated == Init /\ [][NextRepeated]_vars


\* ================================================================= properties
\* Sums and the values they are compared with.
RECURSIVE SumOver(_, _)
\* The sum of f[x] over the x in S.
SumOver(S, f) ==
    IF S = {} THEN 0
    ELSE LET x == CHOOSE y \in S : TRUE IN f[x] + SumOver(S \ {x}, f)

Max(S) == CHOOSE x \in S : \A y \in S : y <= x
Hundred == <<100, 1>>
Zero == <<0, 1>>
InRange(score) == FLeq(Zero, score) /\ FLeq(score, Hundred)

\* The frequency stored for completion under key, 0 when there is none.
Frequency(key, completion) ==
    IF key \in DOMAIN client /\ completion \in DOMAIN client[key]
    THEN client[key][completion] ELSE 0

\* The (key, completion) pairs the database holds.
StoredPairs == UNION { { <<k, m>> : m \in DOMAIN client[k] } : k \in DOMAIN client }

StopFree(lines) == \A l \in lines : ~InList(STOP, l)

\* The offsets i of line at which key_length words are left.
Offsets(line) == 0..(Len(line) - key_length)
\* The key of the key_length words of line at offset i, with the namespace.
KeyAt(line, i) == make_key(SubSeq(line, i + 1, i + key_length), Some(prefix))
\* The word of line that follows them, STOP at the end of the line.
NextAt(line, i) ==
    IF i + key_length < Len(line) THEN line[i + key_length + 1] ELSE STOP

\* The windows of the lines that were indexed, one for every offset of every
\* indexing of a line, each with its key and the word that follows it.
Windows ==
    UNION { { [line |-> l, copy |-> n, offset |-> i,
               key |-> KeyAt(l, i), completion |-> NextAt(l, i)] :
              n \in 1..indexed[l], i \in Offsets(l) } : l \in DOMAIN indexed }
\* The number of the windows ws at which key is followed by completion.
Occurrences(ws, key, completion) ==
    Cardinality({ w \in ws : w.key = key /\ w.completion = completion })
\* The pairs that occur in the windows ws.
OccurringPairs(ws) == { <<w.key, w.completion>> : w \in ws }

\* C1: with completion_length 1 and lines without STOP, the frequency stored
\* for every (key, completion) pair is the number of offsets, over all the
\* lines indexed, at which the key_length words encode to the key and the next
\* word (STOP at the end of the line) is the completion; no other pair is stored.
C1_FrequenciesCountOccurrences ==
    (completion_length = 1 /\ StopFree(DOMAIN indexed)) =>
        LET ws == Windows
        IN  \A p \in StoredPairs \cup OccurringPairs(ws) :
              Frequency(p[1], p[2]) = Occurrences(ws, p[1], p[2])

\* Several lines were indexed and some pair was counted more than once.
C1_Witness ==
    /\ completion_length = 1
    /\ Cardinality(DOMAIN indexed) >= 2
    /\ \E p \in StoredPairs : Frequency(p[1], p[2]) >= 2


\* The score the claims give completion under key.
ExpectedScore(key, completion) ==
    IF Frequency(key, completion) = 0 THEN Zero
    ELSE Frac(100 * Frequency(key, completion),
              Max({ client[key][m] : m \in DOMAIN client[key] }))

\* The three lines of tests.py are indexed, each once.
TestsIndexed == workload = "tests" /\ indexed = [l \in TestLines |-> 1]
TestKeyIAte == make_key(<<wI, wAte>>, Some(TestPrefix))

\* C2: score_for_completion returns 100 * frequency / (highest frequency of a
\* completion of the key), 0 when the key is absent or the completion is not
\* stored under it, always within [0, 100]; with the three test lines indexed,
\* 'a' under 'test:i:ate' scores 100 and 'one' scores 50.
C2_CompletionScore ==
    ret.op = "score_for_completion" =>
        /\ ret.score = ExpectedScore(ret.key, ret.completion)
        /\ (ret.key \notin DOMAIN client => ret.score = Zero)
        /\ (ret.key \in DOMAIN client /\ ret.completion \notin DOMAIN client[ret.key]
              => ret.score = Zero)
        /\ InRange(ret.score)
        /\ (TestsIndexed /\ ret.key = TestKeyIAte /\ ret.completion = tA
              => ret.score = Hundred)
        /\ (TestsIndexed /\ ret.key = TestKeyIAte /\ ret.completion = wOne
              => ret.score = <<50, 1>>)

\* 'one' under 'test:i:ate' was scored 50 with the three test lines indexed.
C2_Witness ==
    /\ TestsIndexed
    /\ ret.op = "score_for_completion"
    /\ ret.key = TestKeyIAte /\ ret.completion = wOne
    /\ ret.score = <<50, 1>>

\* The completion of the window of line at offset i: the word that follows the
\* key (or STOP) with completion_length 1, else the words that follow, joined.
CompletionAt(line, i) ==
    IF completion_length > 1
    THEN Join(SEPARATOR,
              SubSeq(line, i + key_length + 1,
                     IF i + key_length + completion_length > Len(line)
                     THEN Len(line) ELSE i + key_length + completion_length))
    ELSE NextAt(line, i)
\* The window at offset i is one add_line_to_index counts.
ValidAt(line, i) ==
    /\ ~InList(STOP, SubSeq(line, i + 1, i + key_length))
    /\ CompletionAt(line, i) # <<>>
\* The offsets of the windows of line: those up to the first that is not valid.
WindowOffsets(line) ==
    { i \in Offsets(line) : \A j \in 0..i : ValidAt(line, j) }

RECURSIVE FSum(_, _)
\* The sum of the rationals f[x] over the x in S.
FSum(S, f) ==
    IF S = {} THEN Zero
    ELSE LET x == CHOOSE y \in S : TRUE IN FAdd(f[x], FSum(S \ {x}, f))

\* The mean of the scores of the windows of line, 0 without a window.
ExpectedLineScore(line) ==
    LET offs == WindowOffsets(line)
        total == FSum(offs, [i \in offs |->
                     ExpectedScore(KeyAt(line, i), CompletionAt(line, i))])
    IN  IF offs = {} THEN Zero ELSE Frac(total[1], total[2] * Cardinality(offs))

\* The number of increments add_line_to_index makes for line.
Increments(line) ==
    LET db == add_line_to_index(line, <<>>, key_length, completion_length,
                                Some(prefix))
        pairs == UNION { { <<k, m>> : m \in DOMAIN db[k] } : k \in DOMAIN db }
    IN  SumOver(pairs, [q \in pairs |-> db[q[1]][q[2]]])

\* C3: score_for_line is the sum of score_for_completion over the windows of
\* the line, which are the windows add_line_to_index counts (the last one, with
\* completion STOP, included), divided by their number; it lies in [0, 100]; and
\* with the three test lines indexed, i ate a peach scores 100, i ate a pizza
\* 100/3 and i ate one sandwich 50/3.
C3_LineScore ==
    ret.op = "score_for_line" =>
        /\ ret.score = ExpectedLineScore(ret.line)
        /\ Cardinality(WindowOffsets(ret.line)) = Increments(ret.line)
        /\ InRange(ret.score)
        /\ (TestsIndexed /\ ret.line = TestLine => ret.score = Hundred)
        /\ (TestsIndexed /\ ret.line = TestLinePizza => ret.score = <<100, 3>>)
        /\ (TestsIndexed /\ ret.line = TestLine3 => ret.score = <<50, 3>>)

\* i ate a pizza was scored 100/3 with the three test lines indexed.
C3_Witness ==
    /\ TestsIndexed
    /\ ret.op = "score_for_line"
    /\ ret.line = TestLinePizza
    /\ ret.score = <<100, 3>>

\* Every window of line has a completion no other completion of its key beats.
AllWindowsTop(line) ==
    \A i \in WindowOffsets(line) :
        /\ Frequency(KeyAt(line, i), CompletionAt(line, i)) >= 1
        /\ \A m \in DOMAIN client[KeyAt(line, i)] :
               client[KeyAt(line, i)][m] <= Frequency(KeyAt(line, i), CompletionAt(line, i))
\* No two windows of line have the same key.
DistinctKeys(line) ==
    \A i, j \in WindowOffsets(line) : i # j => KeyAt(line, i) # KeyAt(line, j)
\* score_for_line(line) right after add_line_to_index(line), line long enough.
ScoredFresh ==
    /\ ret.op = "score_for_line"
    /\ ret.fresh
    /\ Len(ret.line) >= key_length + completion_length

\* C4 as stated: whatever the model held, a line scores 100 right after it was
\* indexed.
C4_FreshLineScores100 == ScoredFresh => ret.score = Hundred

\* C4, amended: right after it was indexed a line scores 100 exactly when the
\* completion of each of its windows is a most frequent completion of its key,
\* as it is when the model was empty and no key occurs twice in the line;
\* otherwise it scores less than 100, and more than 0.
C4_FreshLineScore ==
    ScoredFresh =>
        /\ ret.score = Hundred <=> AllWindowsTop(ret.line)
        /\ (indexed = [l \in {ret.line} |-> 1] /\ DistinctKeys(ret.line)
              => ret.score = Hundred)
        /\ FLess(Zero, ret.score) /\ FLeq(ret.score, Hundred)

\* A line with distinct keys was indexed into the empty model and scored 100.
C4_Witness ==
    /\ ScoredFresh
    /\ indexed = [l \in {ret.line} |-> 1]
    /\ DistinctKeys(ret.line)
    /\ Cardinality(WindowOffsets(ret.line)) >= 2
    /\ ret.score = Hundred


\* A step of score_for_line or of generate: the call in progress moves, or one
\* of the two returns.
ReadStep ==
    \/ gen' # gen
    \/ ret' # ret /\ ret'.op \in {"score_for_line", "generate"}

\* C5: score_for_line and generate (seed selection and completion lookup
\* included) leave the model as it was, every key, completion and frequency;
\* so the score returned is the score the same call returns if repeated.
C5_ReadsChangeNothing ==
    [][ReadStep =>
         /\ client' = client
         /\ (ret'.op = "score_for_line" =>
               ret'.score = score_for_line(ret'.line, client', key_length,
                                           completion_length, Some(prefix)))]_vars

\* generate returned a walk that grew, from a model that holds lines.
C5_Witness ==
    /\ ret.op = "generate"
    /\ ret.kind = "list"
    /\ Len(ret.value) > Len(ret.first)
    /\ client # <<>>

\* C6: from a model of lines without STOP and a seed without STOP (or none),
\* the list generate returns holds no STOP, whichever branch ends the walk.
C6_NoStopInOutput ==
    (/\ ret.op = "generate"
     /\ ret.kind = "list"
     /\ StopFree(DOMAIN indexed)
     /\ ~InList(STOP, ret.first)) => ~InList(STOP, ret.value)

\* A walk drew STOP and generate returned the words before it.
C6_Witness ==
    /\ ret.op = "generate"
    /\ ret.kind = "list"
    /\ InList(STOP, ret.last)
    /\ Len(ret.value) >= 2

\* C7: generate returns a list at least as long as the seed it started from
\* and at most max_words long (stated for the calls that are given a seed of no
\* more than max_words words).
C7_LengthWithinBounds ==
    (/\ ret.op = "generate"
     /\ ret.given
     /\ Len(ret.first) <= ret.max_words) =>
        /\ ret.kind = "list"
        /\ Len(ret.first) <= Len(ret.value)
        /\ Len(ret.value) <= ret.max_words

\* Some word of lst is one of the relevance terms.
HasTerm(lst, relevant_terms) ==
    \E i \in 1..Len(lst) : InList(lst[i], relevant_terms[1])
\* generate returned from a call with relevance terms and no seed.
RelevantCall ==
    /\ ret.op = "generate"
    /\ ~ret.given
    /\ ret.relevant_terms # None
    /\ Len(ret.relevant_terms[1]) > 0

\* C8: when no word of an indexed line is a relevance term, the relevant
\* selection finds no key and an empty seed, and generate returns the empty
\* list (stated for the calls that return a list).
C8_NoTermNoOutput ==
    (/\ RelevantCall
     /\ ret.kind = "list"
     /\ \A l \in DOMAIN indexed : ~HasTerm(l, ret.relevant_terms)) =>
        /\ ret.first = <<>>
        /\ ret.value = <<>>

\* C9: when a key of the namespace has a relevance term among its words, the
\* seed the relevant selection returns has one, and so has every list generate
\* returns (stated for the calls that return a list).
C9_SeedHasTerm ==
    (/\ RelevantCall
     /\ ret.kind = "list"
     /\ \E k \in keys_of_prefix(client, prefix) :
          HasTerm(strip_prefix(Split(k, SEPARATOR), prefix), ret.relevant_terms)) =>
        /\ HasTerm(ret.first, ret.relevant_terms)
        /\ HasTerm(ret.value, ret.relevant_terms)

\* C10: with no key in the namespace, generate with no seed and no relevance
\* terms returns the empty list: it raises nothing.
C10_EmptyModelEmptyOutput ==
    (/\ ret.op = "generate"
     /\ ~ret.given
     /\ ret.relevant_terms = None
     /\ keys_of_prefix(client, prefix) = {}) =>
        /\ ret.kind = "list"
        /\ ret.value = <<>>

\* The calls of the order o (a sequence of call numbers) run one after another
\* on the database db.
RECURSIVE IndexInOrder(_, _)
IndexInOrder(o, db) ==
    IF o = <<>> THEN db
    ELSE IndexInOrder(Tail(o),
                      add_line_to_index(adding[Head(o)].line, db, key_length,
                                        completion_length, Some(prefix)))
\* The orders of the calls made.
Orders ==
    { o \in [1..Len(adding) -> 1..Len(adding)] :
        \A i, j \in 1..Len(adding) : i # j => o[i] # o[j] }
\* The frequency add_line_to_index(line) alone gives completion under key.
Contributed(line, key, completion) ==
    LET db == add_line_to_index(line, <<>>, key_length, completion_length,
                                Some(prefix))
    IN  IF key \in DOMAIN db /\ completion \in DOMAIN db[key]
        THEN db[key][completion] ELSE 0
\* The part of it that call p has made so far: all but what the call on the
\* rest of its line is still to make.
Made(p, key, completion) ==
    Contributed(adding[p].line, key, completion)
    - Contributed(adding[p].rest, key, completion)
\* Every concurrent call has returned.
AllReturned == \A p \in 1..Len(adding) : adding[p].pc = "returned"
\* The pairs some call counts.
ContributedPairs ==
    UNION { LET db == add_line_to_index(adding[p].line, <<>>, key_length,
                                        completion_length, Some(prefix))
            IN  UNION { { <<k, m>> : m \in DOMAIN db[k] } : k \in DOMAIN db } :
            p \in 1..Len(adding) }

\* C11: when add_line_to_index calls that share (key, completion) pairs run
\* concurrently, no increment is lost: at every moment the frequency of every
\* pair is the sum of the increments the calls have made for it, and once all
\* have returned it is the sum of what each call contributes, the database
\* being the one the calls leave when run one after another, in any order.
C11_NoLostIncrement ==
    /\ \A q \in StoredPairs \cup ContributedPairs :
         Frequency(q[1], q[2]) =
             SumOver(1..Len(adding),
                     [p \in 1..Len(adding) |-> Made(p, q[1], q[2])])
    /\ AllReturned =>
         /\ \A q \in StoredPairs \cup ContributedPairs :
              Frequency(q[1], q[2]) =
                  SumOver(1..Len(adding),
                          [p \in 1..Len(adding) |->
                              Contributed(adding[p].line, q[1], q[2])])
         /\ \A o \in Orders : client = IndexInOrder(o, <<>>)

\* Two calls are both part of the way through their lines and both have
\* incremented the same pair.
C11_Witness ==
    /\ Len(adding) >= 2
    /\ \A p \in {1, 2} :
         adding[p].pc = "running" /\ adding[p].rest # <<>>
    /\ \E q \in StoredPairs :
         Made(1, q[1], q[2]) >= 1 /\ Made(2, q[1], q[2]) >= 1


\* C12: with a quality floor, a completion the filtering of a step of generate
\* has rejected is not drawn again at that step: the completion in hand is
\* never one of those rejected before it.
C12_RejectedNotDrawnAgain ==
    (gen.pc = "filter" /\ gen.completion # None) =>
        ~InList(gen.completion[1], gen.exclude)


RECURSIVE IndexBag(_, _)
\* The database db after every line of the bag was indexed as often as the bag
\* holds it, under this model's prefix.
IndexBag(bag, db) ==
    IF DOMAIN bag = {} THEN db
    ELSE LET l == CHOOSE x \in DOMAIN bag : TRUE
             rest == IF bag[l] = 1 THEN [x \in DOMAIN bag \ {l} |-> bag[x]]
                     ELSE [bag EXCEPT ![l] = @ - 1]
         IN  IndexBag(rest, add_line_to_index(l, db, key_length,
                                              completion_length, Some(prefix)))
\* What this model's own add_line_to_index calls wrote.
OwnDb == IndexBag(indexed, <<>>)

\* C13: a model is isolated from the models with other prefixes in the same
\* database: its add_line_to_index writes only keys that begin with its
\* prefix, the keys its seed selection draws from are the keys it wrote, the
\* completions and frequencies it reads under them are those it wrote, the
\* score of a line is the score its own lines give it, and the seed generate
\* picks is a key it wrote.
C13_NamespacesIsolated ==
    LET own == OwnDb
    IN  /\ \A k \in DOMAIN own : StartsWith(k, prefix \o SEPARATOR)
        /\ keys_of_prefix(client, prefix) = DOMAIN own
        /\ \A k \in DOMAIN own : client[k] = own[k]
        /\ ret.op = "score_for_line" =>
             ret.score = score_for_line(ret.line, own, key_length,
                                        completion_length, Some(prefix))
        /\ (ret.op = "generate" /\ ~ret.given /\ ret.kind = "list"
              /\ ret.first # <<>>) =>
             make_key(ret.first, Some(prefix)) \in DOMAIN own


\* C14: whatever lines were indexed (lines that hold STOP among them) and
\* whatever was scored and generated, every key of the database has a
\* completion, every frequency stored is at least 1, and STOP is in no key.
C14_KeysHaveCompletions ==
    \A k \in DOMAIN client :
        /\ \E m \in DOMAIN client[k] : client[k][m] >= 1
        /\ \A m \in DOMAIN client[k] : client[k][m] >= 1
        /\ \A i \in 1..Len(k) : <<k[i]>> # STOP

\* A line that holds STOP was indexed, its key before STOP is in the database
\* and generate has returned.
C14_Witness ==
    /\ \E l \in DOMAIN indexed : InList(STOP, l)
    /\ client # <<>>
    /\ ret.op = "generate"


\* The completions of the key of the last get_completion call that its exclude
\* argument leaves, and those of them that are relevance terms.
Available == { m \in zmembers(client, ret.key) : ~InList(m, ret.exclude) }
RelevantAvailable ==
    { m \in Available :
        ret.relevant_terms # None /\ InList(m, ret.relevant_terms[1]) }

\* C15: get_completion returns None exactly when the key has no completion
\* outside exclude; otherwise a completion of the key that is not excluded,
\* and one of the relevance terms whenever a completion that is not excluded
\* is one.  With the lines of tests.py indexed, test:i:ate gives one when a is
\* excluded or one is the relevance term, None when a and one are excluded.
C15_CompletionLookup ==
    ret.op = "get_completion" =>
        /\ ret.completion = None <=> Available = {}
        /\ ret.completion # None => ret.completion[1] \in Available
        /\ (ret.completion # None /\ RelevantAvailable # {})
             => ret.completion[1] \in RelevantAvailable
        /\ (TestsIndexed /\ ret.key = Some(TestKeyIAte)) =>
             /\ (ret.exclude = <<tA>> => ret.completion = Some(wOne))
             /\ (ret.exclude = <<tA, wOne>> => ret.completion = None)
             /\ (ret.exclude = <<>> /\ ret.relevant_terms = Some(<<wOne>>)
                   => ret.completion = Some(wOne))

\* A key with a relevant completion that is excluded and another that is not:
\* get_completion returned the one that is not excluded.
C15_Witness ==
    /\ ret.op = "get_completion"
    /\ ret.completion # None
    /\ ret.relevant_terms # None
    /\ \E m \in zmembers(client, ret.key) :
         InList(m, ret.exclude) /\ InList(m, ret.relevant_terms[1])
    /\ Cardinality(zmembers(client, ret.key)) >= 2


\* The smaller of two numbers.
Min(a, b) == IF a <= b THEN a ELSE b
\* words joined by the separator, behind the prefix p and a separator when
\* there is a prefix.
Encoded(p, words) ==
    IF p = None THEN Join(SEPARATOR, words)
    ELSE p[1] \o SEPARATOR \o Join(SEPARATOR, words)

\* C16: for a line of at least key_length words with no STOP among the first
\* key_length, get_key_and_completion returns the key prefix:line[0..key_length)
\* and as completion the up to completion_length words that follow, joined by
\* the separator, or STOP when completion_length is 1 and nothing follows; for
\* a shorter line or STOP in the key window it returns no pair.  On the line
\* i ate a peach: (2, 1) gives test:i:ate and a, (2, 2) gives a:peach, (3, 2)
\* gives test:i:ate:a and peach, (4, 1) gives test:i:ate:a:peach and STOP.
C16_KeyAndCompletion ==
    ret.op = "get_key_and_completion" =>
        LET l == ret.line
            k == ret.key_length
            c == ret.completion_length
        IN  /\ (Len(l) >= k /\ \A i \in 1..k : l[i] # STOP) =>
                 /\ ret.key = Some(Encoded(ret.prefix, SubSeq(l, 1, k)))
                 /\ c > 1 => ret.completion =
                        Some(Join(SEPARATOR, SubSeq(l, k + 1, Min(Len(l), k + c))))
                 /\ (c = 1 /\ Len(l) > k) => ret.completion = Some(l[k + 1])
                 /\ (c = 1 /\ Len(l) = k) => ret.completion = Some(STOP)
            /\ (Len(l) < k \/ \E i \in 1..Min(k, Len(l)) : l[i] = STOP) =>
                 ret.key = None /\ ret.completion = None
            /\ (l = TestLine /\ ret.prefix = Some(TestPrefix)) =>
                 /\ (k = 2 /\ c = 1) =>
                      /\ ret.key = Some(TestKeyIAte)
                      /\ ret.completion = Some(tA)
                 /\ (k = 2 /\ c = 2) =>
                      ret.completion = Some(tA \o SEPARATOR \o wPeach)
                 /\ (k = 3 /\ c = 2) =>
                      /\ ret.key = Some(TestKeyIAte \o SEPARATOR \o tA)
                      /\ ret.completion = Some(wPeach)
                 /\ (k = 4 /\ c = 1) =>
                      /\ ret.key = Some(TestKeyIAte \o SEPARATOR \o tA
                                        \o SEPARATOR \o wPeach)
                      /\ ret.completion = Some(STOP)

\* i ate a peach with key length 3 and completion length 2: one word is left
\* for the completion.
C16_Witness ==
    /\ ret.op = "get_key_and_completion"
    /\ ret.line = TestLine
    /\ ret.key_length = 3 /\ ret.completion_length = 2
    /\ ret.completion = Some(wPeach)


\* The words of a key: what it splits into, without the prefix in front.
KeyWords(key) == Tail(Split(key, SEPARATOR))
\* word holds the separator.
HoldsSeparator(word) == \E i \in 1..Len(word) : word[i] = SEPARATOR[1]
\* No word of an indexed line holds the separator.
SeparatorFree ==
    \A l \in DOMAIN indexed : \A i \in 1..Len(l) : ~HoldsSeparator(l[i])
\* Some key of the namespace has no punctuation among its words.
HasPlainKey ==
    \E k \in keys_of_prefix(client, prefix) :
        \A i \in 1..Len(KeyWords(k)) : KeyWords(k)[i] \notin PUNCTUATION
\* get_random_key_and_seed returned a pair.
RandomPair == ret.op = "get_random_key_and_seed" /\ ret.kind = "pair"

\* C17: with a key without punctuation in the namespace, random selection
\* returns a key of the namespace and as seed its words (the key without the
\* prefix), key_length of them, none of them the prefix and none a
\* punctuation mark.
C17_RandomSeed ==
    ret.op = "get_random_key_and_seed" =>
        /\ HasPlainKey => ret.kind = "pair"
        /\ ret.kind = "pair" =>
             /\ ret.key[1] \in keys_of_prefix(client, prefix)
             /\ ret.seed = KeyWords(ret.key[1])
             /\ Len(ret.seed) = key_length
             /\ ~InList(prefix, ret.seed)
             /\ \A i \in 1..Len(ret.seed) : ret.seed[i] \notin PUNCTUATION


\* C18 as stated: score_for_line returns 0 for every line shorter than
\* key_length + completion_length, whatever the model holds.
C18_ShortLineScoresZero ==
    (ret.op = "score_for_line"
       /\ Len(ret.line) < key_length + completion_length) => ret.score = Zero

\* C18, amended: score_for_line returns 0 for every line that has no window,
\* which is a line shorter than key_length, or of exactly key_length words
\* when completion_length is more than 1, whatever the model holds; a line of
\* exactly key_length words (none of them STOP) that was itself indexed with
\* completion_length 1 has the window (key, STOP) and scores more than 0, and
\* 100 when nothing else was indexed.
C18_NoWindowScoresZero ==
    ret.op = "score_for_line" =>
        /\ (Len(ret.line) < key_length
              \/ (Len(ret.line) = key_length /\ completion_length > 1))
             => ret.score = Zero
        /\ (/\ Len(ret.line) = key_length
            /\ completion_length = 1
            /\ ~InList(STOP, ret.line)
            /\ ret.line \in DOMAIN indexed) =>
             /\ FLess(Zero, ret.score)
             /\ DOMAIN indexed = {ret.line} => ret.score = Hundred

\* A line of exactly key_length words was indexed with completion_length 1
\* and then scored.
C18_Witness ==
    /\ ret.op = "score_for_line"
    /\ Len(ret.line) = key_length
    /\ completion_length = 1
    /\ ret.line \in DOMAIN indexed
    /\ FLess(Zero, ret.score)


\* The offsets of line at which a key starts, up to the first key window that
\* holds STOP.
OffsetsToStop(line) ==
    { i \in Offsets(line) :
        \A j \in 0..i : ~InList(STOP, SubSeq(line, j + 1, j + key_length)) }
\* The sum of the frequencies the database holds: the increments made.
IncrementsMade ==
    SumOver(StoredPairs, [q \in StoredPairs |-> client[q[1]][q[2]]])

\* C19: whatever completion_length is, add_line_to_index makes one increment
\* for every offset i of the line with i + key_length <= len(line), up to the
\* first key window that holds STOP, the last offsets, where fewer than
\* completion_length words or none follow the key, included: the increments
\* made are as many as the indexed lines have such offsets.
C19_OneIncrementPerOffset ==
    IncrementsMade =
        SumOver(DOMAIN indexed,
                [l \in DOMAIN indexed |-> indexed[l] * Cardinality(OffsetsToStop(l))])


\* How often completion follows key among the windows of line.
WindowCount(line, key, completion) ==
    Cardinality({ i \in WindowOffsets(line) :
                    KeyAt(line, i) = key /\ CompletionAt(line, i) = completion })
\* The completions stored under key.
StoredUnder(key) == IF key \in DOMAIN client THEN DOMAIN client[key] ELSE {}
\* Completion c of key scores at least what completion e scores, in db.
ScoresAtLeast(db, key, c, e) ==
    FLeq(score_for_completion(db, key, e), score_for_completion(db, key, c))

\* C20 as stated: when a line that was indexed is indexed once more, every
\* window (K, c) of it that scored at least what another completion e stored
\* under K scored still does.
C20_RepeatNeverLowers ==
    [][(indexed' # indexed /\ ret'.line \in DOMAIN indexed) =>
         \A i \in WindowOffsets(ret'.line) :
             LET K == KeyAt(ret'.line, i)
                 c == CompletionAt(ret'.line, i)
             IN  \A e \in StoredUnder(K) \ {c} :
                     ScoresAtLeast(client, K, c, e)
                         => ScoresAtLeast(client', K, c, e)]_vars

\* C20, amended: when a line is indexed (once more, or for the first time),
\* every window (K, c) of it that scored at least what another completion e
\* stored under K scored still does, provided e does not follow K in the line
\* more often than c does: so for every e that follows K nowhere in the line,
\* and for every line in which no key occurs twice.
C20_RepeatKeepsOrder ==
    [][indexed' # indexed =>
         \A i \in WindowOffsets(ret'.line) :
             LET K == KeyAt(ret'.line, i)
                 c == CompletionAt(ret'.line, i)
             IN  \A e \in StoredUnder(K) \ {c} :
                     (/\ WindowCount(ret'.line, K, e) <= WindowCount(ret'.line, K, c)
                      /\ ScoresAtLeast(client, K, c, e))
                         => ScoresAtLeast(client', K, c, e)]_vars

\* A line was indexed again, and one of its keys has a completion that is not
\* a window of the line and scores no more than the one that is.
C20_Witness ==
    /\ ret.op = "add_line_to_index"
    /\ indexed[ret.line] >= 2
    /\ \E i \in WindowOffsets(ret.line) :
         \E e \in StoredUnder(KeyAt(ret.line, i)) :
             /\ WindowCount(ret.line, KeyAt(ret.line, i), e) = 0
             /\ ScoresAtLeast(client, KeyAt(ret.line, i),
                              CompletionAt(ret.line, i), e)



\* The seed a step of generate leaves: the seed generate goes on with, or the
\* list the last step worked on.
SeedAfter ==
    IF gen'.pc = "completion" THEN gen'.seed
    ELSE IF ret'.op = "generate" /\ ret'.kind = "list" THEN ret'.last
    ELSE gen.seed
\* A step of generate appended a completion to the seed.
Extends ==
    /\ gen.pc \in {"completion", "filter"}
    /\ Len(SeedAfter) > Len(gen.seed)
\* The tokens a step of generate appended to the seed.
Appended == SubSeq(SeedAfter, Len(gen.seed) + 1, Len(SeedAfter))
\* completion is stored under key with a frequency of 1 or more.
IsPair(key, completion) ==
    /\ key \in DOMAIN client
    /\ completion \in DOMAIN client[key]
    /\ client[key][completion] >= 1
\* The key of the namespace and the trailing key_length tokens of the seed.
TrailingKey ==
    LET n == Len(gen.seed)
    IN  make_key(SubSeq(gen.seed, IF n > key_length THEN n - key_length + 1 ELSE 1, n),
                 Some(prefix))
\* The tokens appended are a completion of the key of the trailing key_length
\* tokens of the seed.
ExtendsByPair == IsPair(TrailingKey, Join(SEPARATOR, Appended))
\* The tokens appended are what a completion of the key the step looked up
\* splits into.
ExtendsByLookup ==
    \E completion \in DOMAIN client[gen.key[1]] :
        /\ client[gen.key[1]][completion] >= 1
        /\ Appended = Split(completion, SEPARATOR)
\* With completion_length 1, every generated token of the list returned
\* completes the key of the key_length tokens before it.
OutputWindowsArePairs ==
    (ret.op = "generate" /\ ret.kind = "list" /\ completion_length = 1) =>
        \A i \in (Len(ret.first) + 1)..Len(ret.value) :
            i > key_length =>
                IsPair(make_key(SubSeq(ret.value, i - key_length, i - 1),
                                Some(prefix)),
                       ret.value[i])

\* C21 as stated: every step of generate that extends the seed appends a
\* completion stored, with a frequency of 1 or more, under the key of the
\* namespace and the trailing key_length tokens of the seed; so with
\* completion_length 1 every window of key_length tokens followed by a
\* generated token in the list returned is a (key, completion) pair of the
\* database.
C21_GeneratedFromPairs ==
    [][(Extends => ExtendsByPair) /\ OutputWindowsArePairs']_vars

\* C21, amended: every step of generate that extends the seed appends what a
\* completion stored, with a frequency of 1 or more, under the key it looked
\* up splits into on the separator; when no indexed word holds the separator
\* that key is the key of the namespace and the trailing key_length tokens of
\* the seed and the tokens appended are the completion, so with
\* completion_length 1 every window of key_length tokens followed by a
\* generated token in the list returned is a pair of the database.
C21_GeneratedFromCompletions ==
    [][/\ Extends => ExtendsByLookup
       /\ SeparatorFree => (Extends => ExtendsByPair)
       /\ SeparatorFree => OutputWindowsArePairs']_vars

\* generate returned a list with two generated tokens after a seed of
\* key_length tokens, from lines without the separator.
C21_Witness ==
    /\ ret.op = "generate" /\ ret.kind = "list"
    /\ completion_length = 1
    /\ SeparatorFree
    /\ Len(ret.first) = key_length
    /\ Len(ret.value) >= Len(ret.first) + 2

=============================================================================
